---- MODULE Spec2Model ----
(***************************************************************************)
(* Content-enhancement decision and graph-node adapters of the research    *)
(* agent: backend/src/agent/content_enhancement_decision.py and            *)
(* backend/src/agent/enhanced_graph_nodes.py.                              *)
(***************************************************************************)
EXTENDS Integers, Sequences, FiniteSets, TLC

(***************************************************************************)
(* Python floats are IEEE-754 binary64.  Every float the program handles   *)
(* here is 0.0 or lies in [0.1, 4.0), so it is a whole number of units of  *)
(* 2^-56.  A float is held as <<hi, lo>> = hi * 2^28 + lo such units, and  *)
(* every operation rounds to 53 significant bits, ties to even, as the     *)
(* hardware does.                                                          *)
(***************************************************************************)
Limb == 2^28

FVal(hi, lo) == <<hi, lo>>

FZero == FVal(0, 0)

FOne == FVal(Limb, 0)

\* spacing of binary64 values around v, in units of 2^-56
Ulp(v) ==
    IF v[1] >= 2 * Limb THEN 32
    ELSE IF v[1] >= Limb THEN 16
    ELSE IF v[1] >= Limb \div 2 THEN 8
    ELSE IF v[1] >= Limb \div 4 THEN 4
    ELSE IF v[1] >= Limb \div 8 THEN 2
    ELSE 1

Carry(hi, lo) == FVal(hi + (lo \div Limb), lo % Limb)

\* the binary64 value nearest to the exact quantity v + r/d units (0 <= r < d)
RoundF(v, r, d) ==
    LET u == Ulp(v)
        m == v[2] % u
        twice == 2 * (m * d + r)
        even == ((v[2] \div u) % 2) = 0
        up == twice > d * u \/ (twice = d * u /\ ~even)
    IN  IF up THEN Carry(v[1], v[2] - m + u) ELSE FVal(v[1], v[2] - m)

\* a + b on floats
FAdd(a, b) == RoundF(Carry(a[1] + b[1], a[2] + b[2]), 0, 1)

\* n * a for an int n and a float a (the int converts exactly)
FMulInt(n, a) == RoundF(Carry(n * a[1], n * a[2]), 0, 1)

\* n * 2^56 / d for small n, d: <<whole units, remainder>> (remainder < d)
ScaledDiv(n, d) ==
    LET t1 == n * (Limb % d)
        r1 == t1 % d
        t2 == r1 * (Limb % d)
    IN  <<FVal(n * (Limb \div d) + (t1 \div d),
               r1 * (Limb \div d) + (t2 \div d)), t2 % d>>

\* the float a decimal literal n/10 denotes: n * 2^56 / 10, rounded
FLit(n) == RoundF(ScaledDiv(n, 10)[1], ScaledDiv(n, 10)[2], 10)

FLess(a, b) == a[1] < b[1] \/ (a[1] = b[1] /\ a[2] < b[2])

FMin(a, b) == IF FLess(b, a) THEN b ELSE a

\* f"{v:.2f}" for 0 <= v <= 1: the number of hundredths printed, the exact
\* value of v rounded to two decimals (half to even)
Fmt2(v) ==
    CHOOSE h \in 0..100 :
        LET above(k) == \* v prints as more than k hundredths
                LET x == ScaledDiv(2 * k + 1, 200)
                IN  FLess(x[1], v) \/ (x[1] = v /\ x[2] = 0 /\ k % 2 = 1)
        IN  /\ (h = 0 \/ above(h - 1))
            /\ (h = 100 \/ ~above(h))

(***************************************************************************)
(* A Python str is the sequence of its characters.                         *)
(***************************************************************************)
UpperChars == <<"A", "B", "C", "D", "E", "F", "G", "H", "I", "J", "K", "L", "M",
                "N", "O", "P", "Q", "R", "S", "T", "U", "V", "W", "X", "Y", "Z">>

LowerChars == <<"a", "b", "c", "d", "e", "f", "g", "h", "i", "j", "k", "l", "m",
                "n", "o", "p", "q", "r", "s", "t", "u", "v", "w", "x", "y", "z">>

LowerChar(c) ==
    IF \E i \in 1..Len(UpperChars) : UpperChars[i] = c
    THEN LowerChars[CHOOSE i \in 1..Len(UpperChars) : UpperChars[i] = c]
    ELSE c

\* str.lower()
Lower(s) == [i \in 1..Len(s) |-> LowerChar(s[i])]

\* pat in s
Contains(pat, s) ==
    \E i \in 1..(Len(s) - Len(pat) + 1) : SubSeq(s, i, i + Len(pat) - 1) = pat

\* any(p in s for p in pats)
AnyIn(pats, s) == \E k \in 1..Len(pats) : Contains(pats[k], s)

RECURSIVE Concat(_)
Concat(ss) == IF ss = <<>> THEN <<>> ELSE Head(ss) \o Concat(Tail(ss))

(***************************************************************************)
(* ContentEnhancementDecisionMaker._calculate_url_priority                 *)
(***************************************************************************)
TldPatterns ==
    <<<<".", "g", "o", "v">>,
      <<".", "e", "d", "u">>,
      <<".", "o", "r", "g">>>>

PlatformPatterns ==
    <<<<"w", "i", "k", "i", "p", "e", "d", "i", "a">>,
      <<"a", "r", "x", "i", "v">>,
      <<"i", "e", "e", "e">>,
      <<"a", "c", "m">>>>

TitleKeywords ==
    <<<<"r", "e", "p", "o", "r", "t">>,
      <<"s", "t", "u", "d", "y">>,
      <<"r", "e", "s", "e", "a", "r", "c", "h">>,
      <<"a", "n", "a", "l", "y", "s", "i", "s">>,
      <<"t", "e", "c", "h", "n", "i", "c", "a", "l">>>>

CompanyPatterns ==
    <<<<"g", "o", "o", "g", "l", "e">>,
      <<"m", "i", "c", "r", "o", "s", "o", "f", "t">>,
      <<"a", "m", "a", "z", "o", "n">>,
      <<"t", "e", "s", "l", "a">>,
      <<"n", "v", "i", "d", "i", "a">>>>

\* url, title: the lower-cased url and title of the source
TldRule(url) == AnyIn(TldPatterns, url)

PlatformRule(url) == AnyIn(PlatformPatterns, url)

KeywordRule(title) == AnyIn(TitleKeywords, title)

CompanyRule(url) == AnyIn(CompanyPatterns, url)

calculate_url_priority(source) ==
    LET url == Lower(source.url)
        title == Lower(source.title)
        s0 == FZero
        s1 == IF TldRule(url) THEN FAdd(s0, FLit(4)) ELSE s0
        s2 == IF PlatformRule(url) THEN FAdd(s1, FLit(3)) ELSE s1
        s3 == IF KeywordRule(title) THEN FAdd(s2, FLit(2)) ELSE s2
        s4 == IF CompanyRule(url) THEN FAdd(s3, FLit(2)) ELSE s3
        s5 == FAdd(s4, FLit(1))
    IN  FMin(s5, FOne)

(***************************************************************************)
(* ContentEnhancementDecisionMaker._parse_llm_decision                     *)
(***************************************************************************)
Digits == <<"0", "1", "2", "3", "4", "5", "6", "7", "8", "9">>

IsDigit(c) == \E i \in 1..Len(Digits) : Digits[i] = c

DigitValue(c) == (CHOOSE i \in 1..Len(Digits) : Digits[i] = c) - 1

KwEnhance == <<"e", "n", "h", "a", "n", "c", "e">>

KwNoEnhance == <<"n", "o", "_", "e", "n", "h", "a", "n", "c", "e">>

KwConfidence == <<"c", "o", "n", "f", "i", "d", "e", "n", "c", "e">>

KwSelective == <<"s", "e", "l", "e", "c", "t", "i", "v", "e">>

KwComprehensive == <<"c", "o", "m", "p", "r", "e", "h", "e", "n", "s", "i", "v", "e">>

\* "enhance" in decision_text and "no_enhance" not in decision_text
ParseNeedsEnhancement(t) == Contains(KwEnhance, t) /\ ~Contains(KwNoEnhance, t)

\* a match of [0-9]\.[0-9] starts at j
DecimalAt(t, j) ==
    j + 2 <= Len(t) /\ IsDigit(t[j]) /\ t[j + 1] = "." /\ IsDigit(t[j + 2])

\* re.search(r'confidence.*?([0-9]\.[0-9])', t): a match starts at i and its
\* group starts at j ('.' matches any character but a newline)
ConfidenceMatch(t, i, j) ==
    /\ i + Len(KwConfidence) - 1 <= Len(t)
    /\ SubSeq(t, i, i + Len(KwConfidence) - 1) = KwConfidence
    /\ j >= i + Len(KwConfidence)
    /\ DecimalAt(t, j)
    /\ \A k \in (i + Len(KwConfidence))..(j - 1) : t[k] # "\n"

\* the confidence in tenths (float("d.d") is the double nearest d.d);
\* the default 0.5 when the search finds nothing
ParseConfidence(t) ==
    LET starts == {i \in 1..Len(t) : \E j \in 1..Len(t) : ConfidenceMatch(t, i, j)}
    IN  IF starts = {} THEN 5
        ELSE LET i == CHOOSE x \in starts : \A y \in starts : x <= y
                 js == {j \in 1..Len(t) : ConfidenceMatch(t, i, j)}
                 j == CHOOSE x \in js : \A y \in js : x <= y
             IN  10 * DigitValue(t[j]) + DigitValue(t[j + 2])

ParseEnhancementType(t, needs_enhancement) ==
    IF Contains(KwSelective, t) THEN "selective"
    ELSE IF Contains(KwComprehensive, t) THEN "comprehensive"
    ELSE IF needs_enhancement THEN "selective"
    ELSE "none"

\* scored_sources: (source, score) for every source, in order
ScoreSources(grounding_sources) ==
    [i \in 1..Len(grounding_sources) |->
        <<grounding_sources[i], calculate_url_priority(grounding_sources[i])>>]

\* list.sort(key=lambda x: x[1], reverse=True): descending and stable, an
\* element goes after every element that does not score below it
RECURSIVE InsertDesc(_, _)
InsertDesc(sorted, x) ==
    IF sorted = <<>> THEN <<x>>
    ELSE IF FLess(Head(sorted)[2], x[2]) THEN <<x>> \o sorted
    ELSE <<Head(sorted)>> \o InsertDesc(Tail(sorted), x)

RECURSIVE SortDesc(_)
SortDesc(scored) ==
    IF scored = <<>> THEN <<>>
    ELSE InsertDesc(SortDesc(SubSeq(scored, 1, Len(scored) - 1)), scored[Len(scored)])

MaxUrls(enhancement_type) == IF enhancement_type = "comprehensive" THEN 3 ELSE 2

Threshold == FLit(3)

PriorityEntry(x) ==
    [title |-> x[1].title, url |-> x[1].url, priority_score |-> x[2],
     reasoning |-> Fmt2(x[2])]

\* the selection with the score filter left out
SelectPriority_NoFilter(sorted, max_urls) ==
    LET top == SubSeq(sorted, 1, IF Len(sorted) < max_urls THEN Len(sorted) ELSE max_urls)
    IN  [i \in 1..Len(top) |-> PriorityEntry(top[i])]

\* [entry for source, score in scored_sources[:max_urls] if score > 0.3]
SelectPriority(sorted, max_urls) ==
    LET top == SubSeq(sorted, 1, IF Len(sorted) < max_urls THEN Len(sorted) ELSE max_urls)
        kept == SelectSeq(top, LAMBDA x : FLess(Threshold, x[2]))
    IN  [i \in 1..Len(kept) |-> PriorityEntry(kept[i])]

parse_llm_decision(decision_text, grounding_sources) ==
    LET t == Lower(decision_text)
        needs == ParseNeedsEnhancement(t)
        etype == ParseEnhancementType(t, needs)
    IN  [needs_enhancement |-> needs,
         priority_urls |->
             IF needs /\ grounding_sources # <<>>
             THEN SelectPriority(SortDesc(ScoreSources(grounding_sources)), MaxUrls(etype))
             ELSE <<>>,
         reasoning |-> t,
         confidence_score |-> ParseConfidence(t),
         enhancement_type |-> etype]

(***************************************************************************)
(* The shared research state and the nodes' partial updates are dicts:     *)
(* functions whose domain is the set of keys present.                      *)
(***************************************************************************)
EmptyDict == [k \in {} |-> 0]

Has(d, k) == k \in DOMAIN d

\* d.get(k, default)
Get(d, k, default) == IF k \in DOMAIN d THEN d[k] ELSE default

\* d with d[k] = v
Put(d, k, v) == [x \in DOMAIN d \cup {k} |-> IF x = k THEN v ELSE d[x]]

(***************************************************************************)
(* should_enhance_content                                                  *)
(***************************************************************************)
\* the gate without the check of research_loop_count
should_enhance_content_NoLoopCheck(st, key) ==
    IF ~key THEN "continue_without_enhancement"
    ELSE IF Has(st, "enhancement_status")
            /\ st["enhancement_status"] \in {"completed", "skipped"}
         THEN "continue_without_enhancement"
    ELSE IF Len(Get(st, "web_research_result", <<>>)) < 1 THEN "continue_without_enhancement"
    ELSE "analyze_enhancement_need"

\* the gate without the check of enhancement_status
should_enhance_content_NoStatusCheck(st, key) ==
    IF ~key THEN "continue_without_enhancement"
    ELSE IF Get(st, "research_loop_count", 0) < 1 THEN "continue_without_enhancement"
    ELSE IF Len(Get(st, "web_research_result", <<>>)) < 1 THEN "continue_without_enhancement"
    ELSE "analyze_enhancement_need"

\* key: os.getenv("FIRECRAWL_API_KEY") is set and not empty
should_enhance_content(st, key) ==
    IF ~key THEN "continue_without_enhancement"
    ELSE IF Get(st, "research_loop_count", 0) < 1 THEN "continue_without_enhancement"
    ELSE IF Has(st, "enhancement_status")
            /\ st["enhancement_status"] \in {"completed", "skipped"}
         THEN "continue_without_enhancement"
    ELSE IF Len(Get(st, "web_research_result", <<>>)) < 1 THEN "continue_without_enhancement"
    ELSE "analyze_enhancement_need"

(***************************************************************************)
(* enhanced_reflection                                                     *)
(***************************************************************************)
SupplementedGap == "Content has been sufficiently supplemented through deep crawling"

\* the adjustment with the boost compared by > instead of >=
AdjustReflection_StrictBoost(st, reflection_result) ==
    IF /\ Has(st, "enhancement_status") /\ st["enhancement_status"] = "completed"
       /\ Get(st, "enhanced_sources_count", 0) > 0
       /\ ~reflection_result.is_sufficient
       /\ FLess(FLit(6), FMin(FMulInt(st["enhanced_sources_count"], FLit(3)), FLit(8)))
    THEN [reflection_result EXCEPT !.is_sufficient = TRUE, !.knowledge_gap = SupplementedGap]
    ELSE reflection_result

\* what enhanced_reflection does to the base reflection's result
AdjustReflection(st, reflection_result) ==
    IF /\ Has(st, "enhancement_status") /\ st["enhancement_status"] = "completed"
       /\ Get(st, "enhanced_sources_count", 0) > 0
       /\ ~reflection_result.is_sufficient
       /\ ~FLess(FMin(FMulInt(st["enhanced_sources_count"], FLit(3)), FLit(8)), FLit(6))
    THEN [reflection_result EXCEPT !.is_sufficient = TRUE, !.knowledge_gap = SupplementedGap]
    ELSE reflection_result

\* base: what reflection(state, config) did, a result or an exception; an
\* exception of the base call is not caught
enhanced_reflection(st, base) ==
    IF base.raises THEN [raised |-> TRUE, result |-> <<>>]
    ELSE [raised |-> FALSE, result |-> <<AdjustReflection(st, base.result)>>]

(***************************************************************************)
(* Crawling.  A markdown text is held by what the program reads of it: its *)
(* length, whether it has a digit, whether it has a '#'.  A scrape outcome *)
(* is an exception ("raise"), a falsy result ("none"), a result whose      *)
(* success is false ("fail"), or a successful result ("ok") whose markdown *)
(* may be None.                                                            *)
(***************************************************************************)
EmptyText == [length |-> 0, has_digit |-> FALSE, has_heading |-> FALSE]

\* result.markdown or ''
MarkdownOf(outcome) == IF outcome.has_markdown THEN outcome.markdown ELSE EmptyText

\* ContentEnhancementDecisionMaker._assess_enhancement_quality
assess_enhancement_quality(content) ==
    IF content.length = 0 THEN "poor"
    ELSE IF content.length > 5000 /\ content.has_digit /\ content.has_heading THEN "excellent"
    ELSE IF content.length > 1000 /\ (content.has_digit \/ content.has_heading) THEN "good"
    ELSE IF content.length > 300 THEN "fair"
    ELSE "poor"

\* url_info.get("url") is missing or empty
NoUrl(url_info) == Get(url_info, "url", <<>>) = <<>>

\* the record appended for a successful scrape; the node (with_quality false)
\* stamps the time, the decision maker (with_quality true) grades the content
EnhancedResult(url_info, outcome, with_quality) ==
    LET common ==
            [url |-> url_info["url"],
             title |-> Get(url_info, "title", <<>>),
             original_priority |-> Get(url_info, "priority_score", FZero),
             enhanced_content |-> MarkdownOf(outcome),
             content_length |-> MarkdownOf(outcome).length,
             source_type |-> "firecrawl_enhanced"]
    IN  IF with_quality
        THEN common @@ [enhancement_quality |-> assess_enhancement_quality(MarkdownOf(outcome))]
        ELSE common @@ [timestamp |-> "now"]

\* the loop that stops at the first URL whose scrape raises
RECURSIVE CrawlLoop_AbortOnRaise(_, _, _, _)
CrawlLoop_AbortOnRaise(urls, scrape, i, with_quality) ==
    IF i > Len(urls) THEN [results |-> <<>>, attempts |-> <<>>]
    ELSE IF NoUrl(urls[i]) THEN CrawlLoop_AbortOnRaise(urls, scrape, i + 1, with_quality)
    ELSE IF scrape[i].kind = "raise" THEN [results |-> <<>>, attempts |-> <<urls[i]["url"]>>]
    ELSE LET rest == CrawlLoop_AbortOnRaise(urls, scrape, i + 1, with_quality)
         IN  [results |->
                 IF scrape[i].kind = "ok"
                 THEN <<EnhancedResult(urls[i], scrape[i], with_quality)>> \o rest.results
                 ELSE rest.results,
              attempts |-> <<urls[i]["url"]>> \o rest.attempts]

\* for url_info in priority_urls: ... scrape_url(url) ..., from entry i on;
\* scrape[i] is what scrape_url does for entry i.  results: enhanced_results;
\* attempts: the URLs passed to scrape_url, in call order
RECURSIVE CrawlLoop(_, _, _, _)
CrawlLoop(urls, scrape, i, with_quality) ==
    IF i > Len(urls) THEN [results |-> <<>>, attempts |-> <<>>]
    ELSE IF NoUrl(urls[i]) THEN CrawlLoop(urls, scrape, i + 1, with_quality)
    ELSE LET rest == CrawlLoop(urls, scrape, i + 1, with_quality)
         IN  [results |->
                 IF scrape[i].kind = "ok"
                 THEN <<EnhancedResult(urls[i], scrape[i], with_quality)>> \o rest.results
                 ELSE rest.results,
              attempts |-> <<urls[i]["url"]>> \o rest.attempts]

\* ContentEnhancementDecisionMaker.enhance_content_with_firecrawl;
\* app: self.firecrawl_app is set
enhance_content_with_firecrawl(app, priority_urls, scrape) ==
    IF ~app THEN [results |-> <<>>, attempts |-> <<>>]
    ELSE CrawlLoop(priority_urls, scrape, 1, TRUE)

(***************************************************************************)
(* content_enhancement_analysis                                            *)
(***************************************************************************)
RecentSources == 10

TruncateAt == 3000

\* seq[-n:]
LastN(seq, n) == IF Len(seq) <= n THEN seq ELSE SubSeq(seq, Len(seq) - n + 1, Len(seq))

\* the research topic cannot be derived: state["messages"] is missing or
\* get_research_topic raises, when neither the plan nor user_query gives one
TopicFails(st, helper_raises) ==
    LET plan == Get(st, "plan", <<>>)
    IN  IF plan # <<>> /\ Get(st, "current_task_pointer", 0) < Len(plan) THEN FALSE
        ELSE IF Get(st, "user_query", <<>>) # <<>> THEN FALSE
        ELSE ~Has(st, "messages") \/ helper_raises

\* the last 10 gathered sources that are dicts, as {title, url, snippet}
GroundingSources(st) ==
    LET recent == SelectSeq(LastN(Get(st, "sources_gathered", <<>>), RecentSources),
                            LAMBDA e : e.is_dict)
    IN  [i \in 1..Len(recent) |->
            [title |-> Get(recent[i].value, "title", <<>>),
             url |-> Get(recent[i].value, "url", <<>>),
             snippet |-> Get(recent[i].value, "snippet", <<>>)]]

\* the block with "..." appended from 3000 characters on
FormatBlock_EllipsisAtLimit(result) ==
    [title |-> result.title,
     url |-> result.url,
     content_length |-> result.content_length,
     shown_length |-> IF result.enhanced_content.length < TruncateAt
                      THEN result.enhanced_content.length ELSE TruncateAt,
     ellipsis |-> result.enhanced_content.length >= TruncateAt]

\* the markdown block of one enhanced result: its content cut to the first
\* 3000 characters, "..." appended if it was longer
FormatBlock(result) ==
    [title |-> result.title,
     url |-> result.url,
     content_length |-> result.content_length,
     shown_length |-> IF result.enhanced_content.length < TruncateAt
                      THEN result.enhanced_content.length ELSE TruncateAt,
     ellipsis |-> result.enhanced_content.length > TruncateAt]

DecisionDict(decision) ==
    [needs_enhancement |-> decision.needs_enhancement,
     confidence_score |-> decision.confidence_score,
     enhancement_type |-> decision.enhancement_type,
     reasoning |-> decision.reasoning,
     priority_urls |-> decision.priority_urls]

\* lines 135-165: the update once the crawl loop has run
AfterCrawl(state_update, crawl, format_raises) ==
    IF crawl.results # <<>>
    THEN IF format_raises
         THEN [exc |-> "format", update |-> EmptyDict, calls |-> crawl.attempts]
         ELSE [exc |-> "",
               update |-> state_update @@
                   [enhanced_content_results |-> crawl.results,
                    web_research_result |->
                        [i \in 1..Len(crawl.results) |-> FormatBlock(crawl.results[i])],
                    enhancement_status |-> "completed",
                    enhanced_sources_count |-> Len(crawl.results)],
               calls |-> crawl.attempts]
    ELSE [exc |-> "",
          update |-> state_update @@ [enhancement_status |-> "failed"],
          calls |-> crawl.attempts]

\* the node without the check of the crawl client
AfterDecision_NoClientCheck(decision, app, scrape, format_raises) ==
    LET state_update == [enhancement_decision |-> DecisionDict(decision)]
    IN  IF ~decision.needs_enhancement
        THEN [exc |-> "", update |-> state_update @@ [enhancement_status |-> "skipped"],
              calls |-> <<>>]
        ELSE AfterCrawl(state_update, CrawlLoop(decision.priority_urls, scrape, 1, FALSE),
                        format_raises)

\* lines 76-165: from the decision to the returned update
AfterDecision(decision, app, scrape, format_raises) ==
    LET state_update == [enhancement_decision |-> DecisionDict(decision)]
    IN  IF ~decision.needs_enhancement
        THEN [exc |-> "", update |-> state_update @@ [enhancement_status |-> "skipped"],
              calls |-> <<>>]
        ELSE IF ~app
        THEN [exc |-> "", update |-> state_update @@ [enhancement_status |-> "skipped_no_api"],
              calls |-> <<>>]
        ELSE AfterCrawl(state_update, CrawlLoop(decision.priority_urls, scrape, 1, FALSE),
                        format_raises)

\* ContentEnhancementDecisionMaker.analyze_enhancement_need: the configuration
\* or the model client fails before the call, llm.invoke fails, or the text
\* it returns is parsed
analyze_enhancement_need(llm, grounding_sources) ==
    IF llm.kind = "config_error" THEN [raises |-> TRUE, llm_called |-> FALSE]
    ELSE IF llm.kind = "transport_error" THEN [raises |-> TRUE, llm_called |-> TRUE]
    ELSE [raises |-> FALSE, llm_called |-> TRUE,
          decision |-> parse_llm_decision(llm.text, grounding_sources)]

\* the body of the try (lines 33-165); analyzed: what analyze_enhancement_need
\* did.  exc: "" or the step whose exception left the body; llm_called:
\* llm.invoke was reached; calls: the URLs scraped
AnalysisBody(st, app, helper_raises, analyzed, scrape, format_raises) ==
    IF TopicFails(st, helper_raises)
    THEN [exc |-> "topic", update |-> EmptyDict, llm_called |-> FALSE, calls |-> <<>>]
    ELSE IF analyzed.raises
    THEN [exc |-> "analyze", update |-> EmptyDict, llm_called |-> analyzed.llm_called,
          calls |-> <<>>]
    ELSE AfterDecision(analyzed.decision, app, scrape, format_raises)
             @@ [llm_called |-> TRUE]

ErrorMessage(exc) == <<"Content enhancement analysis node exception: ", exc>>

\* the node with no handler around its body
Handle_Propagate(body) ==
    [raised |-> body.exc # "", update |-> body.update, exc |-> body.exc,
     llm_called |-> body.llm_called, calls |-> body.calls]

\* except Exception as e (lines 167-173)
Handle(body) ==
    IF body.exc # ""
    THEN [raised |-> FALSE,
          update |-> [enhancement_status |-> "error",
                      enhancement_error |-> ErrorMessage(body.exc)],
          exc |-> body.exc, llm_called |-> body.llm_called, calls |-> body.calls]
    ELSE [raised |-> FALSE, update |-> body.update, exc |-> body.exc,
          llm_called |-> body.llm_called, calls |-> body.calls]

\* the node's return (raised, update), with what its body did (exc,
\* llm_called, calls)
content_enhancement_analysis(st, app, helper_raises, analyzed, scrape, format_raises) ==
    Handle(AnalysisBody(st, app, helper_raises, analyzed, scrape, format_raises))

\* get_content_enhancement_decision_maker: the singleton is built on first
\* use, with a crawl client if the key is set then
GetInstance(instance, key) ==
    IF instance = "none" THEN (IF key THEN "with_app" ELSE "without_app") ELSE instance

\* the engine's merge of a partial update: each key of the update replaces
\* the state's
Merge(st, update) == update @@ st

(***************************************************************************)
(* Inputs                                                                  *)
(***************************************************************************)
MaxUrlPieces == 3

MaxTitlePieces == 2

MaxTextPieces == 3

MaxSources == 4

MaxCount == 4

MaxLoops == 2

SeqsUpTo(S, n) == UNION {[1..k -> S] : k \in 0..n}

UrlPieces ==
    {<<".", "g", "o", "v">>,
     <<".", "E", "D", "U">>,
     <<"a", "r", "X", "i", "v">>,
     <<"a", "c", "m">>,
     <<"G", "o", "o", "g", "l", "e">>,
     <<"x">>}

TitlePieces ==
    {<<"R", "e", "p", "o", "r", "t">>,
     <<"s", "t", "u", "d", "y">>}

\* {url, title} pairs for the scorer
ScoreInputs ==
    {[url |-> Concat(u), title |-> Concat(t)] :
        u \in SeqsUpTo(UrlPieces, MaxUrlPieces), t \in SeqsUpTo(TitlePieces, MaxTitlePieces)}

TextPieces ==
    {<<"D", "e", "c", "i", "s", "i", "o", "n", ":", " ">>,
     <<"E", "N", "H", "A", "N", "C", "E", "\n">>,
     <<"N", "O", "_">>,
     <<"E", "n", "h", "a", "n", "c", "e", "m", "e", "n", "t", " ", "T", "y", "p", "e", ":", " ", "n", "o", "n", "e", "\n">>,
     <<"C", "o", "n", "f", "i", "d", "e", "n", "c", "e", ":", " ", "0", ".", "8", "\n">>}

\* LLM decision texts
ParseTexts == {Concat(t) : t \in SeqsUpTo(TextPieces, MaxTextPieces)}

MaxConfPieces == 3

ConfPieces ==
    {<<"C", "o", "n", "f", "i", "d", "e", "n", "c", "e", ":", " ">>,
     <<"0", ".", "8", " ">>,
     <<"9", ".", "5", " ">>,
     <<"h", "i", "g", "h">>,
     <<"\n">>}

\* LLM decision texts that state a confidence, or none
ConfTexts == {Concat(t) : t \in SeqsUpTo(ConfPieces, MaxConfPieces)}

SrcGov == [url |-> <<"x", ".", "g", "o", "v">>, title |-> <<>>, snippet |-> <<>>]

SrcStudy == [url |-> <<"x", ".", "c", "o", "m", "/", "a">>, title |-> <<"S", "t", "u", "d", "y">>, snippet |-> <<>>]

SrcGoogle == [url |-> <<"g", "o", "o", "g", "l", "e", ".", "c", "o", "m">>, title |-> <<"R", "e", "p", "o", "r", "t">>, snippet |-> <<>>]

SrcBlog == [url |-> <<"x", ".", "c", "o", "m", "/", "b">>, title |-> <<"b", "l", "o", "g">>, snippet |-> <<>>]

SrcArxiv == [url |-> <<"a", "r", "x", "i", "v", ".", "o", "r", "g">>, title |-> <<"p", "a", "p", "e", "r">>, snippet |-> <<>>]

SelectSources == {SrcGov, SrcStudy, SrcGoogle, SrcBlog}

SelectTexts ==
    {<<"E", "N", "H", "A", "N", "C", "E">>,
     <<"N", "O", "_", "E", "N", "H", "A", "N", "C", "E">>,
     <<"e", "n", "h", "a", "n", "c", "e", " ", "C", "o", "m", "p", "r", "e", "h", "e", "n", "s", "i", "v", "e">>,
     <<"E", "n", "h", "a", "n", "c", "e", " ", "s", "e", "l", "e", "c", "t", "i", "v", "e", " ", "c", "o", "m", "p", "r", "e", "h", "e", "n", "s", "i", "v", "e">>,
     <<"n", "o", "n", "e">>}

Statuses == {"skipped", "skipped_no_api", "completed", "failed", "error"}

WebBlob == [web |-> "finding"]

\* a dict with key k bound to each value of vals, or without the key
Optional(k, vals) == {EmptyDict} \cup {k :> v : v \in vals}

GateStates ==
    {a @@ b @@ c :
        a \in Optional("research_loop_count", 0..MaxLoops),
        b \in Optional("enhancement_status", Statuses),
        c \in Optional("web_research_result", {<<>>, <<WebBlob>>})}

ReflectStates ==
    {a @@ b :
        a \in Optional("enhancement_status", Statuses),
        b \in Optional("enhanced_sources_count", 0..MaxCount)}

BaseReflections ==
    {[raises |-> TRUE, result |-> <<>>]} \cup
    {[raises |-> FALSE,
      result |-> [is_sufficient |-> s, knowledge_gap |-> g, follow_up_queries |-> <<"q">>]] :
        s \in BOOLEAN, g \in {"", "gap"}}

MaxBatch == 3

Ok(md) == [kind |-> "ok", has_markdown |-> TRUE, markdown |-> md]

OkNone == [kind |-> "ok", has_markdown |-> FALSE, markdown |-> EmptyText]

NotOk(kind) == [kind |-> kind, has_markdown |-> FALSE, markdown |-> EmptyText]

LongText == [length |-> TruncateAt + 1, has_digit |-> FALSE, has_heading |-> TRUE]

FullText == [length |-> TruncateAt, has_digit |-> TRUE, has_heading |-> FALSE]

\* what scrape_url does for one URL
WorkflowOutcomes == {NotOk("raise"), NotOk("fail"), Ok(LongText)}

NodeOutcomes ==
    {NotOk("raise"), NotOk("none"), NotOk("fail"), OkNone, Ok(EmptyText), Ok(FullText),
     Ok(LongText)}

BatchOutcomes == {NotOk("raise"), NotOk("none"), NotOk("fail"), OkNone, Ok(LongText)}

LlmText(t) == [kind |-> "text", text |-> t]

\* what the LLM-backed analysis does
LlmOutcomes ==
    {[kind |-> "config_error", text |-> <<>>], [kind |-> "transport_error", text |-> <<>>]}
    \cup {LlmText(t) : t \in
            {<<"D", "e", "c", "i", "s", "i", "o", "n", ":", " ", "E", "N", "H", "A", "N", "C", "E">>,
     <<"D", "e", "c", "i", "s", "i", "o", "n", ":", " ", "N", "O", "_", "E", "N", "H", "A", "N", "C", "E">>,
     <<"e", "n", "h", "a", "n", "c", "e", ",", " ", "c", "o", "m", "p", "r", "e", "h", "e", "n", "s", "i", "v", "e">>}}

Gathered(src) == [is_dict |-> TRUE, value |-> src]

\* what one round of web research adds to sources_gathered
SourceBatches ==
    {<<Gathered(SrcGov), Gathered(SrcBlog)>>,
     <<Gathered(SrcStudy), [is_dict |-> FALSE, value |-> EmptyDict], Gathered(SrcArxiv)>>}

Task == [description |-> <<"t", "o", "p", "i", "c">>]

\* the state a run starts from: the topic comes from the plan, from
\* user_query, or from the messages
StartStates ==
    {[plan |-> <<Task>>, current_task_pointer |-> 0, messages |-> <<>>],
     [user_query |-> <<"q", "u", "e", "r", "y">>, messages |-> <<>>],
     [messages |-> <<"m">>]}

\* states the gate admits, for the node on its own
ReadyStates ==
    {[user_query |-> <<"q", "u", "e", "r", "y">>, research_loop_count |-> 1,
      web_research_result |-> <<WebBlob>>, sources_gathered |-> g] :
        g \in {<<>>,
               <<Gathered(SrcGov), Gathered(SrcBlog), Gathered(SrcArxiv), Gathered(SrcGoogle)>>,
               <<Gathered(SrcStudy), Gathered(SrcGov)>>}}

UrlA == <<"a", ".", "o", "r", "g">>

UrlB == <<"b", ".", "c", "o", "m">>

\* entries of a priority_urls list handed to enhance_content_with_firecrawl
BatchEntries ==
    {[title |-> <<"A">>, url |-> UrlA, priority_score |-> FLit(5)],
     [title |-> <<"B">>, url |-> UrlB],
     [title |-> <<"C">>]}

VARIABLES
    state,      \* the shared research state
    env_key,    \* FIRECRAWL_API_KEY is set in the environment
    instance,   \* the decision maker singleton: "none", "with_app", "without_app"
    route,      \* what should_enhance_content returned last, "none" before
    raised,     \* the last node call ended in an exception
    last,       \* <<what the last content_enhancement_analysis call did, and its scrape input>>
    h_in,       \* the input of a function applied on its own
    h_out       \* <<its result>>, <<>> before

vars == <<state, env_key, instance, route, raised, last, h_in, h_out>>

NoWorkflow ==
    /\ state = EmptyDict
    /\ env_key = FALSE
    /\ instance = "none"
    /\ route = "none"
    /\ raised = FALSE
    /\ last = <<>>

workflow_vars == <<state, env_key, instance, route, raised, last>>

(***************************************************************************)
(* The pure functions, applied to one input each                           *)
(***************************************************************************)
InitScore == h_in \in ScoreInputs /\ h_out = <<>> /\ NoWorkflow

Score ==
    /\ h_out = <<>>
    /\ h_out' = <<calculate_url_priority(h_in)>>
    /\ UNCHANGED <<h_in, workflow_vars>>

SpecScore == InitScore /\ [][Score]_vars

InitParse ==
    /\ h_in \in [text : ParseTexts, sources : {<<>>, <<SrcGov, SrcBlog>>}]
    /\ h_out = <<>>
    /\ NoWorkflow

InitSelect ==
    /\ h_in \in [text : SelectTexts, sources : SeqsUpTo(SelectSources, MaxSources)]
    /\ h_out = <<>>
    /\ NoWorkflow

Parse ==
    /\ h_out = <<>>
    /\ h_out' = <<parse_llm_decision(h_in.text, h_in.sources)>>
    /\ UNCHANGED <<h_in, workflow_vars>>

SpecParse == InitParse /\ [][Parse]_vars

SpecSelect == InitSelect /\ [][Parse]_vars

InitConfidence ==
    /\ h_in \in [text : ConfTexts, sources : {<<>>}]
    /\ h_out = <<>>
    /\ NoWorkflow

SpecConfidence == InitConfidence /\ [][Parse]_vars

(***************************************************************************)
(* The gate and the reflection adapter, applied to one state each          *)
(***************************************************************************)
InitGate ==
    /\ state \in GateStates
    /\ env_key \in BOOLEAN
    /\ instance = "none"
    /\ route = "none"
    /\ raised = FALSE
    /\ last = <<>>
    /\ h_in = state
    /\ h_out = <<>>

Gate ==
    /\ route # "analyze_enhancement_need"
    /\ route' = should_enhance_content(state, env_key)
    /\ UNCHANGED <<state, env_key, instance, raised, last, h_in, h_out>>

SpecGate == InitGate /\ [][Gate]_vars

InitReflect ==
    /\ state \in ReflectStates
    /\ h_in \in BaseReflections
    /\ h_out = <<>>
    /\ env_key = FALSE
    /\ instance = "none"
    /\ route = "none"
    /\ raised = FALSE
    /\ last = <<>>

Reflect ==
    /\ h_out = <<>>
    /\ ~raised
    /\ raised' = enhanced_reflection(state, h_in).raised
    /\ h_out' = enhanced_reflection(state, h_in).result
    /\ UNCHANGED <<state, env_key, instance, route, last, h_in>>

SpecReflect == InitReflect /\ [][Reflect]_vars

(***************************************************************************)
(* The workflow: rounds of web research, the gate, and the analysis node   *)
(* when the gate admits it                                                 *)
(***************************************************************************)
Init ==
    /\ state \in StartStates
    /\ env_key \in BOOLEAN
    /\ instance = "none"
    /\ route = "none"
    /\ raised = FALSE
    /\ last = <<>>
    /\ h_in = <<>>
    /\ h_out = <<>>

\* one research loop of the graph: findings and sources are appended, the
\* loop is counted
WebResearch ==
    /\ route # "analyze_enhancement_need"
    /\ Get(state, "research_loop_count", 0) < MaxLoops
    /\ \E batch \in SourceBatches :
        state' = Merge(state,
            [research_loop_count |-> Get(state, "research_loop_count", 0) + 1,
             web_research_result |-> Get(state, "web_research_result", <<>>) \o <<WebBlob>>,
             sources_gathered |-> Get(state, "sources_gathered", <<>>) \o batch])
    /\ UNCHANGED <<env_key, instance, route, raised, last, h_in, h_out>>

\* the key is set or unset in the environment
EnvChange ==
    /\ route # "analyze_enhancement_need"
    /\ env_key' = ~env_key
    /\ UNCHANGED <<state, instance, route, raised, last, h_in, h_out>>

\* some caller asks for the decision maker before the node does
GetMaker ==
    /\ route # "analyze_enhancement_need"
    /\ instance = "none"
    /\ instance' = GetInstance(instance, env_key)
    /\ UNCHANGED <<state, env_key, route, raised, last, h_in, h_out>>

\* the node runs, where the gate sent the workflow to it, and the engine
\* merges its update; the decision maker is fetched once the topic is known
Analysis(outcomes) ==
    /\ route = "analyze_enhancement_need"
    /\ \E llm \in LlmOutcomes :
        \E analyzed \in {analyze_enhancement_need(llm, GroundingSources(state))} :
        \E helper_raises \in (IF TopicFails(state, TRUE) THEN BOOLEAN ELSE {FALSE}) :
        LET reached == ~TopicFails(state, helper_raises)
            maker == IF reached THEN GetInstance(instance, env_key) ELSE instance
            crawls == /\ reached
                      /\ ~analyzed.raises
                      /\ analyzed.decision.needs_enhancement
                      /\ maker = "with_app"
            n == IF crawls THEN Len(analyzed.decision.priority_urls) ELSE 0
        IN  \E scrape \in [1..n -> outcomes] :
            \E format_raises \in
                    (IF \E i \in 1..n : scrape[i].kind = "ok" THEN BOOLEAN ELSE {FALSE}) :
            \E r \in {content_enhancement_analysis(state, maker = "with_app",
                          helper_raises, analyzed, scrape, format_raises)} :
                /\ instance' = maker
                /\ raised' = r.raised
                /\ last' = <<r @@ [scrape |-> scrape]>>
                /\ state' = IF r.raised THEN state ELSE Merge(state, r.update)
    /\ route' = "none"
    /\ UNCHANGED <<env_key, h_in, h_out>>

Next ==
    \/ WebResearch
    \/ EnvChange
    \/ GetMaker
    \/ Gate
    \/ Analysis(WorkflowOutcomes)

Spec == Init /\ [][Next]_vars

(***************************************************************************)
(* Crawling on its own: the node from a state the gate admits, and         *)
(* enhance_content_with_firecrawl on a list of entries                     *)
(***************************************************************************)
InitCrawl ==
    /\ env_key = TRUE
    /\ raised = FALSE
    /\ last = <<>>
    /\ h_out = <<>>
    /\ \/ /\ state \in ReadyStates
          /\ instance \in {"none", "with_app", "without_app"}
          /\ route = "analyze_enhancement_need"
          /\ h_in = <<>>
       \/ /\ state = EmptyDict
          /\ instance \in {"with_app", "without_app"}
          /\ route = "none"
          /\ h_in \in SeqsUpTo(BatchEntries, MaxBatch) \ {<<>>}

CrawlBatch ==
    /\ h_in # <<>>
    /\ h_out = <<>>
    /\ \E scrape \in [1..Len(h_in) -> BatchOutcomes] :
        h_out' = <<enhance_content_with_firecrawl(instance = "with_app", h_in, scrape)
                       @@ [scrape |-> scrape]>>
    /\ UNCHANGED <<h_in, workflow_vars>>

NextCrawl == Analysis(NodeOutcomes) \/ CrawlBatch

SpecCrawl == InitCrawl /\ [][NextCrawl]_vars

(***************************************************************************)
(* Properties of the pure functions                                        *)
(***************************************************************************)
\* the position of scored[i] when sorting descending by score, equal scores
\* in their original order
RefRank(scored, i) ==
    1 + Cardinality({j \in 1..Len(scored) : FLess(scored[i][2], scored[j][2])})
      + Cardinality({j \in 1..(i - 1) : scored[j][2] = scored[i][2]})

RefSorted(scored) ==
    [p \in 1..Len(scored) |->
        scored[CHOOSE i \in 1..Len(scored) : RefRank(scored, i) = p]]

\* filter by score > 0.3 first, then cap
RefSelect(scored, enhancement_type) ==
    LET kept == SelectSeq(RefSorted(scored), LAMBDA x : FLess(FLit(3), x[2]))
        cap == IF enhancement_type = "comprehensive" THEN 3 ELSE 2
        n == IF Len(kept) < cap THEN Len(kept) ELSE cap
    IN  [i \in 1..n |-> PriorityEntry(kept[i])]

ExampleScored == <<<<SrcGov, FLit(9)>>, <<SrcBlog, FLit(2)>>, <<SrcStudy, FLit(7)>>>>

\* C8: priority_urls is empty when needs_enhancement is false or there is no
\* source; otherwise it is the reference selection (stable descending sort of
\* the scored sources, keep scores > 0.3, then at most 3 for "comprehensive"
\* and 2 otherwise), so capping before filtering changes nothing; and scores
\* [0.9, 0.2, 0.7] with type selective give the 0.9 and the 0.7 source.
C8_PriorityUrls ==
    /\ h_out # <<>> =>
        h_out[1].priority_urls =
            IF ~h_out[1].needs_enhancement \/ h_in.sources = <<>> THEN <<>>
            ELSE RefSelect(ScoreSources(h_in.sources), h_out[1].enhancement_type)
    /\ SelectPriority(SortDesc(ExampleScored), MaxUrls("selective"))
           = <<PriorityEntry(ExampleScored[1]), PriorityEntry(ExampleScored[3])>>

\* a comprehensive decision over four sources of which the filter leaves two:
\* both the cap and the filter have acted
C8_Witness ==
    /\ h_out # <<>>
    /\ Len(h_in.sources) = 4
    /\ h_out[1].needs_enhancement
    /\ h_out[1].enhancement_type = "comprehensive"
    /\ Len(h_out[1].priority_urls) = 2
    /\ \E i \in 1..3 : ~FLess(FLit(3), SortDesc(ScoreSources(h_in.sources))[i][2])

\* the sum of the rule contributions in tenths, base included
NominalTenths(source) ==
    1 + (IF TldRule(Lower(source.url)) THEN 4 ELSE 0)
      + (IF PlatformRule(Lower(source.url)) THEN 3 ELSE 0)
      + (IF KeywordRule(Lower(source.title)) THEN 2 ELSE 0)
      + (IF CompanyRule(Lower(source.url)) THEN 2 ELSE 0)

\* C9: the priority score equals min(0.1 + 0.4*[TLD rule] + 0.3*[platform
\* rule] + 0.2*[title-keyword rule] + 0.2*[company rule], 1.0), each rule
\* counted once: the score is the float that decimal value denotes.
C9_ScoreIsFormula ==
    h_out # <<>> =>
        h_out[1] = FLit(IF NominalTenths(h_in) > 10 THEN 10 ELSE NominalTenths(h_in))

IsWordChar(c) ==
    \/ c = "_"
    \/ IsDigit(c)
    \/ \E i \in 1..Len(LowerChars) : LowerChars[i] = c \/ UpperChars[i] = c

\* pat occurs in s as a token: not inside a longer word
HasToken(pat, s) ==
    \E i \in 1..(Len(s) - Len(pat) + 1) :
        /\ SubSeq(s, i, i + Len(pat) - 1) = pat
        /\ (i = 1 \/ ~IsWordChar(s[i - 1]))
        /\ (i + Len(pat) > Len(s) \/ ~IsWordChar(s[i + Len(pat)]))

\* C10: needs_enhancement is true if and only if the lower-cased text contains
\* "enhance" as a token and does not contain "no_enhance"; "enhance" inside a
\* longer word (as in "Enhancement Type: none") does not count.
C10_TokenRule ==
    h_out # <<>> =>
        h_out[1].needs_enhancement =
            (HasToken(KwEnhance, Lower(h_in.text)) /\ ~Contains(KwNoEnhance, Lower(h_in.text)))

(***************************************************************************)
(* Properties of the nodes                                                 *)
(***************************************************************************)
Called == last # <<>>

Update == last[1].update

StatusOf(d) == Get(d, "enhancement_status", "none")

\* C1: content_enhancement_analysis never ends in an exception: whether topic
\* extraction, the analyze call, a crawl call or result formatting fails, it
\* returns an update with a status, and when an exception left the inner
\* steps the update is exactly {enhancement_status: "error",
\* enhancement_error: <message>}.
C1_NeverPropagates ==
    /\ ~raised
    /\ Called =>
        /\ ~last[1].raised
        /\ StatusOf(Update) \in Statuses
        /\ last[1].exc # "" =>
            Update = [enhancement_status |-> "error",
                      enhancement_error |-> ErrorMessage(last[1].exc)]
        /\ last[1].exc = "" => StatusOf(Update) # "error"

\* formatting failed after a successful crawl, and the node returned the
\* error update
C1_Witness ==
    /\ Called
    /\ last[1].exc = "format"
    /\ \E i \in DOMAIN last[1].scrape : last[1].scrape[i].kind = "raise"
    /\ StatusOf(Update) = "error"
    /\ StatusOf(state) = "error"

GateConditions(st, key) ==
    /\ key
    /\ Has(st, "research_loop_count") /\ st["research_loop_count"] >= 1
    /\ StatusOf(st) \notin {"completed", "skipped"}
    /\ Has(st, "web_research_result") /\ st["web_research_result"] # <<>>

\* C2: should_enhance_content returns "analyze_enhancement_need" if and only
\* if the key is configured, research_loop_count >= 1, enhancement_status is
\* neither completed nor skipped, and web_research_result is non-empty;
\* otherwise "continue_without_enhancement"; the state it was given (h_in) is
\* unchanged.
C2_GateIff ==
    /\ state = h_in
    /\ route # "none" =>
        route = IF GateConditions(state, env_key) THEN "analyze_enhancement_need"
                ELSE "continue_without_enhancement"

\* the gate admitted a state whose last analysis had failed
C2_Witness ==
    /\ route = "analyze_enhancement_need"
    /\ StatusOf(state) = "failed"
    /\ state["research_loop_count"] = 1

Settled(st) == StatusOf(st) \in {"completed", "skipped"}

\* C3: each analysis sets enhancement_status once, to one of the five
\* statuses, and the merged state carries it; once the merged status is
\* completed or skipped the gate never admits the analysis again and the
\* status never changes; skipped_no_api, failed and error do not make the
\* gate refuse.
C3_StatusSettles ==
    /\ [](Called => StatusOf(Update) \in Statuses /\ StatusOf(state) = StatusOf(Update))
    /\ [](\A s \in {"skipped_no_api", "failed", "error"} :
            should_enhance_content(Put(state, "enhancement_status", s), env_key)
                = should_enhance_content([k \in DOMAIN state \ {"enhancement_status"} |-> state[k]],
                                         env_key))
    /\ [][Settled(state) =>
            /\ StatusOf(state') = StatusOf(state)
            /\ route' # "analyze_enhancement_need"]_vars

\* after a completed analysis, with the key set, a further research loop has
\* run and the gate has been asked again and refused
C3_Witness ==
    /\ Called
    /\ StatusOf(state) = "completed"
    /\ env_key
    /\ state["research_loop_count"] = MaxLoops
    /\ Len(state["web_research_result"]) > state["enhanced_sources_count"]
    /\ route = "continue_without_enhancement"

\* C4: enhanced_reflection sets is_sufficient and replaces knowledge_gap by
\* the supplemented message exactly when enhancement_status is "completed",
\* the base verdict is insufficient and enhanced_sources_count >= 2 (where
\* min(count * 0.3, 0.8) >= 0.6); otherwise it returns the base result as it
\* is; a sufficient verdict stays sufficient.
C4_Reflection ==
    /\ \A n \in 0..MaxCount :
        (~FLess(FMin(FMulInt(n, FLit(3)), FLit(8)), FLit(6))) <=> n >= 2
    /\ (h_out # <<>> /\ ~h_in.raises) =>
        LET base == h_in.result
            overridden ==
                /\ StatusOf(state) = "completed"
                /\ ~base.is_sufficient
                /\ Get(state, "enhanced_sources_count", 0) >= 2
        IN  /\ h_out[1] =
                IF overridden
                THEN [is_sufficient |-> TRUE, knowledge_gap |-> SupplementedGap,
                      follow_up_queries |-> base.follow_up_queries]
                ELSE base
            /\ base.is_sufficient => h_out[1].is_sufficient

\* two enhanced sources turned an insufficient verdict into a sufficient one
C4_Witness ==
    /\ h_out # <<>>
    /\ ~h_in.raises
    /\ ~h_in.result.is_sufficient
    /\ StatusOf(state) = "completed"
    /\ Get(state, "enhanced_sources_count", 0) = 2
    /\ h_out[1].is_sufficient
    /\ h_out[1].knowledge_gap = SupplementedGap

CrawlKeys == {"web_research_result", "enhanced_content_results", "enhanced_sources_count"}

\* C5: the node scrapes only when the decision needs enhancement and the
\* crawl client is configured: without the need the status is "skipped",
\* with the need but no client it is "skipped_no_api", in both cases with no
\* scrape call and none of web_research_result, enhanced_content_results,
\* enhanced_sources_count in the update.
C5_CrawlOnlyWhenNeeded ==
    Called =>
        /\ last[1].calls # <<>> => instance = "with_app"
        /\ last[1].exc = "" =>
            LET d == Update["enhancement_decision"]
            IN  /\ last[1].calls # <<>> => d.needs_enhancement
                /\ ~d.needs_enhancement =>
                    /\ StatusOf(Update) = "skipped"
                    /\ last[1].calls = <<>>
                    /\ DOMAIN Update \cap CrawlKeys = {}
                /\ (d.needs_enhancement /\ instance # "with_app") =>
                    /\ StatusOf(Update) = "skipped_no_api"
                    /\ last[1].calls = <<>>
                    /\ DOMAIN Update \cap CrawlKeys = {}

\* enhancement was needed, URLs were selected, and no client was there
C5_Witness ==
    /\ Called
    /\ StatusOf(Update) = "skipped_no_api"
    /\ Len(Update["enhancement_decision"].priority_urls) >= 2
    /\ last[1].calls = <<>>

\* the positions from i on of the entries of urls that have a URL and are
\* flagged, in order
RECURSIVE Positions(_, _, _)
Positions(urls, i, flagged) ==
    IF i > Len(urls) THEN <<>>
    ELSE (IF ~NoUrl(urls[i]) /\ flagged[i] THEN <<i>> ELSE <<>>)
             \o Positions(urls, i + 1, flagged)

All(urls) == [i \in 1..Len(urls) |-> TRUE]

Succeeded(urls, scrape) == [i \in 1..Len(urls) |-> scrape[i].kind = "ok"]

\* the node got to its crawl loop
Crawled == Called /\ last[1].exc = "" /\ StatusOf(Update) \in {"completed", "failed"}

UrlsAt(urls, positions) == [k \in 1..Len(positions) |-> urls[positions[k]]["url"]]

ResultUrls(results) == [k \in 1..Len(results) |-> results[k].url]

\* C7: in enhance_content_with_firecrawl and in the node's crawl loop, every
\* URL of the list is scraped exactly once, in input order, whatever the
\* other URLs' outcomes, and the results are exactly the successfully scraped
\* URLs in input order.
C7_BatchIsolation ==
    /\ (h_out # <<>> /\ instance = "with_app") =>
        /\ h_out[1].attempts = UrlsAt(h_in, Positions(h_in, 1, All(h_in)))
        /\ ResultUrls(h_out[1].results) =
               UrlsAt(h_in, Positions(h_in, 1, Succeeded(h_in, h_out[1].scrape)))
    /\ Crawled =>
        LET urls == Update["enhancement_decision"].priority_urls
        IN  /\ last[1].calls = UrlsAt(urls, Positions(urls, 1, All(urls)))
            /\ ResultUrls(Get(Update, "enhanced_content_results", <<>>)) =
                   UrlsAt(urls, Positions(urls, 1, Succeeded(urls, last[1].scrape)))

\* of three URLs the second raised and the first and third are in the results
C7_Witness ==
    /\ h_out # <<>>
    /\ Len(h_in) = 3
    /\ h_out[1].scrape[1].kind = "ok"
    /\ h_out[1].scrape[2].kind = "raise"
    /\ h_out[1].scrape[3].kind = "ok"
    /\ ~NoUrl(h_in[1]) /\ ~NoUrl(h_in[2]) /\ ~NoUrl(h_in[3])
    /\ ResultUrls(h_out[1].results) = <<h_in[1]["url"], h_in[3]["url"]>>

\* the first one-digit "." one-digit decimal after the first "confidence" of
\* the lower-cased text, in tenths; 5 (0.5) when there is none
ClaimedConfidence(t) ==
    LET words == {i \in 1..Len(t) :
                    /\ i + Len(KwConfidence) - 1 <= Len(t)
                    /\ SubSeq(t, i, i + Len(KwConfidence) - 1) = KwConfidence}
    IN  IF words = {} THEN 5
        ELSE LET i == CHOOSE x \in words : \A y \in words : x <= y
                 js == {j \in (i + Len(KwConfidence))..Len(t) : DecimalAt(t, j)}
             IN  IF js = {} THEN 5
                 ELSE LET j == CHOOSE x \in js : \A y \in js : x <= y
                      IN  10 * DigitValue(t[j]) + DigitValue(t[j + 2])

\* C11: for every LLM decision text the parsed confidence_score lies in
\* [0, 1] (0..10 tenths): it is the first one-digit "." one-digit decimal that
\* follows the word "confidence", and exactly 0.5 when there is no such
\* decimal.
C11_ConfidenceInUnit ==
    h_out # <<>> =>
        /\ h_out[1].confidence_score \in 0..10
        /\ h_out[1].confidence_score = ClaimedConfidence(Lower(h_in.text))

DecisionFields ==
    {"needs_enhancement", "confidence_score", "enhancement_type", "reasoning",
     "priority_urls"}

\* C12: every update content_enhancement_analysis returns holds
\* enhancement_decision with the decision's five fields, whatever the outcome
\* (skipped, skipped_no_api, completed, failed or error).
C12_DecisionRecorded ==
    Called =>
        /\ StatusOf(Update) \in Statuses
        /\ Has(Update, "enhancement_decision")
        /\ DOMAIN Update["enhancement_decision"] = DecisionFields

\* C13: in every run of content_enhancement_analysis that ends with
\* enhancement_status = "skipped_no_api", the status is returned, not raised,
\* and neither the LLM nor the crawl client was invoked before the check of
\* the crawl credential.
C13_NoCallBeforeCredentialCheck ==
    (Called /\ StatusOf(Update) = "skipped_no_api") =>
        /\ ~last[1].raised
        /\ last[1].calls = <<>>
        /\ ~last[1].llm_called

====
